---- MODULE Spec2Model ----
(***************************************************************************)
(* protoc-gen-rust-grpc: the gRPC client generator for Rust.               *)
(*                                                                         *)
(* Text is modelled as a sequence of one-character strings, so that        *)
(* splitting, escaping and concatenation are computed character by         *)
(* character as the C++ does.  RustGrpcGenerator::Generate is modelled as  *)
(* a state machine whose steps are the statements of its body; the         *)
(* descriptor graph (file) and the plugin parameter are its inputs.        *)
(***************************************************************************)
EXTENDS Integers, Sequences, FiniteSets, TLC

VARIABLES
  file,       \* the FileDescriptor: the sequence of its ServiceDescriptors
  parameter,  \* the plugin parameter handed to Generate
  pc,         \* position inside Generate
  i,          \* index of the service loop of Generate (1-based)
  j,          \* index of the method loop of GenerateMethods (1-based)
  out,        \* what was written to the output file: one entry per Emit
  opened,     \* number of context->Open calls of this Generate call
  calls,      \* number of GenerateService calls of this Generate call
  error,      \* *error of this Generate call
  ret,        \* return value of this Generate call ("none" while running)
  pass,       \* "first" or "second" call of Generate on the same inputs
  prev,       \* [out, ret, error, opened] of the first call
  arg,        \* argument of the text function under check
  res,        \* its result
  applied     \* which text function produced res ("none" before)

vars == <<file, parameter, pc, i, j, out, opened, calls, error, ret, pass,
          prev, arg, res, applied>>

genVars == <<file, parameter, pc, i, j, out, opened, calls, error, ret, pass,
             prev>>
textVars == <<arg, res, applied>>

\* ------------------------------------------------------------------ bounds
MaxServices == 2      \* services per file
MaxMethods == 2       \* methods per file, over all its services
MaxLineLen == 3       \* characters of a comment line given to the sanitizer
MaxCommentLen == 4    \* characters of a raw comment given to the formatter

\* ------------------------------------------------------------------ text
BS == "\\"
NL == "\n"
\* the grave accent (U+0060), which a TLA+ string cannot hold
Backtick == "grave"

Max(a, b) == IF a >= b THEN a ELSE b

RECURSIVE Concat(_)
\* the concatenation of a sequence of texts
Concat(ss) == IF ss = <<>> THEN <<>> ELSE Head(ss) \o Concat(Tail(ss))

\* the characters the second StrReplaceAll of SanitizeForRustDoc escapes
MarkupChars == {Backtick, "*", "_", "[", "]", "#", "<", ">"}

RECURSIVE StrReplaceAll(_, _)
\* absl::StrReplaceAll for one-character patterns: one left-to-right scan of
\* s, each character that is a key of reps replaced by its replacement; the
\* replacements are not scanned again.
StrReplaceAll(s, reps) ==
  IF s = <<>> THEN <<>>
  ELSE (IF Head(s) \in DOMAIN reps THEN reps[Head(s)] ELSE <<Head(s)>>)
       \o StrReplaceAll(Tail(s), reps)

EscapeEscape == [c \in {BS} |-> <<BS, BS>>]
EscapeMarkup == [c \in MarkupChars |-> <<BS, c>>]

\* a sanitizer with the two passes in the other order
SanitizeMarkupFirst(raw_comment) ==
  StrReplaceAll(StrReplaceAll(raw_comment, EscapeMarkup), EscapeEscape)

\* a sanitizer without the first pass: the escape character is not escaped
SanitizeMarkupOnly(raw_comment) == StrReplaceAll(raw_comment, EscapeMarkup)

SanitizeForRustDoc(raw_comment) ==
  LET sanitized == StrReplaceAll(raw_comment, EscapeEscape)
  IN  StrReplaceAll(sanitized, EscapeMarkup)

RECURSIVE StrSplit(_, _)
\* absl::StrSplit(text, delimiter) into a vector: the pieces between the
\* delimiters, empty pieces kept; the empty text splits into one empty piece.
StrSplit(s, d) ==
  IF s = <<>> THEN << <<>> >>
  ELSE LET rest == StrSplit(Tail(s), d)
       IN  IF Head(s) = d
           THEN << <<>> >> \o rest
           ELSE << <<Head(s)>> \o Head(rest) >> \o Tail(rest)

\* the body of the loop of ProtoCommentToRustDoc: what one line appends
DocLine(line) ==
  IF line = <<>>
  THEN <<"/", "/", "/", NL>>
  ELSE <<"/", "/", "/", " ">> \o SanitizeForRustDoc(line) \o <<NL>>

\* a formatter that drops the empty lines instead of preserving them
ProtoCommentSkipEmpty(proto_comment) ==
  LET lines == SelectSeq(StrSplit(proto_comment, NL), LAMBDA l : l # <<>>)
  IN  Concat([k \in 1..Len(lines) |-> DocLine(lines[k])])

ProtoCommentToRustDoc(proto_comment) ==
  LET lines == StrSplit(proto_comment, NL)
  IN  Concat([k \in 1..Len(lines) |-> DocLine(lines[k])])

\* ------------------------------------------------------------------ the texts of the schema, character by character
T_type == <<"t", "y", "p", "e">>
T_match == <<"m", "a", "t", "c", "h">>
T_super == <<"s", "u", "p", "e", "r", ":", ":">>
T_Foo == <<"F", "o", "o">>
T_pkg == <<"p", "k", "g", ".">>
T_foo_bar == <<"f", "o", "o", "_", "b", "a", "r">>
T_Echo == <<"E", "c", "h", "o">>
T_type_api == <<"t", "y", "p", "e", "_", "a", "p", "i">>
T_Bar == <<"B", "a", "r">>
T_GetFoo == <<"G", "e", "t", "F", "o", "o">>
T_Type == <<"T", "y", "p", "e">>
T_list_all == <<"l", "i", "s", "t", "_", "a", "l", "l">>
T_Req == <<"R", "e", "q">>
T_Resp == <<"R", "e", "s", "p">>
C_svc1 == <<"S">>
C_svc3 == <<"a", BS, "b">>
C_m2 == <<"A", "*", NL, NL, "B">>
C_m3 == <<"x", "_", "y", NL>>

\* ------------------------------------------------------------------ naming
Uppers == <<"A", "B", "C", "D", "E", "F", "G", "H", "I", "J", "K", "L", "M",
            "N", "O", "P", "Q", "R", "S", "T", "U", "V", "W", "X", "Y", "Z">>
Lowers == <<"a", "b", "c", "d", "e", "f", "g", "h", "i", "j", "k", "l", "m",
            "n", "o", "p", "q", "r", "s", "t", "u", "v", "w", "x", "y", "z">>
Digits == {"0", "1", "2", "3", "4", "5", "6", "7", "8", "9"}

ascii_isupper(c) == \E k \in 1..Len(Uppers) : Uppers[k] = c
ascii_islower(c) == \E k \in 1..Len(Lowers) : Lowers[k] = c
ascii_tolower(c) ==
  IF ascii_isupper(c) THEN Lowers[CHOOSE k \in 1..Len(Uppers) : Uppers[k] = c]
  ELSE c
ascii_toupper(c) ==
  IF ascii_islower(c) THEN Uppers[CHOOSE k \in 1..Len(Lowers) : Lowers[k] = c]
  ELSE c

RECURSIVE CamelToSnakeFrom(_, _, _)
\* the loop of rust::CamelToSnakeCase from character p on
CamelToSnakeFrom(input, p, last_char_was_underscore) ==
  IF p > Len(input) THEN <<>>
  ELSE LET c == input[p]
           sep == IF p > 1 /\ ascii_isupper(c) /\ ~last_char_was_underscore
                  THEN <<"_">> ELSE <<>>
       IN  sep \o <<ascii_tolower(c)>> \o CamelToSnakeFrom(input, p + 1, c = "_")

\* rust::CamelToSnakeCase: an underscore before every upper-case letter but
\* the first and those that follow an underscore, then all in lower case
CamelToSnakeCase(input) == CamelToSnakeFrom(input, 1, FALSE)

RECURSIVE UnderscoresToCamelFrom(_, _, _)
\* the loop of cpp::UnderscoresToCamelCase from character p on
UnderscoresToCamelFrom(input, p, cap_next_letter) ==
  IF p > Len(input) THEN <<>>
  ELSE LET c == input[p]
       IN  IF ascii_islower(c)
           THEN <<IF cap_next_letter THEN ascii_toupper(c) ELSE c>>
                \o UnderscoresToCamelFrom(input, p + 1, FALSE)
           ELSE IF ascii_isupper(c)
           THEN <<c>> \o UnderscoresToCamelFrom(input, p + 1, FALSE)
           ELSE IF c \in Digits
           THEN <<c>> \o UnderscoresToCamelFrom(input, p + 1, TRUE)
           ELSE UnderscoresToCamelFrom(input, p + 1, TRUE)

\* rust::SnakeToUpperCamelCase
SnakeToUpperCamelCase(input) == UnderscoresToCamelFrom(input, 1, TRUE)

\* the Rust keywords among the identifiers the names of the pools give
RustKeywords == {T_type, T_match}

\* rust::RsSafeName: a keyword becomes a raw identifier
RsSafeName(name) == IF name \in RustKeywords THEN <<"r", "#">> \o name ELSE name

\* rust::RsTypePath: the path of the Rust type generated for a message, a
\* function of the message descriptor and the (immutable) context
RsTypePath(message) == T_super \o message

\* --------------------------------------------------------------- descriptors
\* The names and comments of the schema, by declaration position: the k-th
\* service of a file and the k-th method of a service take the k-th entry.
ServicePool ==
  << [name |-> T_Foo,      full_name |-> T_pkg \o T_Foo,      comment |-> C_svc1],
     [name |-> T_foo_bar,  full_name |-> T_pkg \o T_foo_bar,  comment |-> <<>>],
     [name |-> T_Echo,     full_name |-> T_Echo,              comment |-> C_svc3],
     [name |-> T_type_api, full_name |-> T_pkg \o T_type_api, comment |-> <<>>] >>

MethodPool ==
  << [name |-> T_Bar,      comment |-> <<>>],
     [name |-> T_GetFoo,   comment |-> C_m2],
     [name |-> T_Type,     comment |-> C_m3],
     [name |-> T_list_all, comment |-> <<>>] >>

PoolAt(pool, k) == pool[((k - 1) % Len(pool)) + 1]

\* what the schema says of one method beyond its name and comment
MethodFlags ==
  [client_streaming : BOOLEAN, server_streaming : BOOLEAN, deprecated : BOOLEAN]

\* the MethodDescriptor at position k of its service
MethodDescriptor(k, flags) ==
  [name             |-> PoolAt(MethodPool, k).name,
   comment          |-> PoolAt(MethodPool, k).comment,
   client_streaming |-> flags.client_streaming,
   server_streaming |-> flags.server_streaming,
   deprecated       |-> flags.deprecated,
   input_type       |-> T_Req,
   output_type      |-> T_Resp]

\* the ServiceDescriptor at position k of its file
ServiceDescriptor(k, methods) ==
  [name      |-> PoolAt(ServicePool, k).name,
   full_name |-> PoolAt(ServicePool, k).full_name,
   comment   |-> PoolAt(ServicePool, k).comment,
   methods   |-> methods]

RECURSIVE SumTo(_, _)
SumTo(c, n) == IF n = 0 THEN 0 ELSE c[n] + SumTo(c, n - 1)

\* how many methods each of k services declares
MethodCounts(k) ==
  {c \in [1..k -> 0..MaxMethods] : SumTo(c, k) <= MaxMethods}

\* the FileDescriptor with k services, the n-th with c[n] methods whose flags
\* are the next c[n] entries of flat
FileDescriptor(k, c, flat) ==
  [n \in 1..k |->
     ServiceDescriptor(n, [m \in 1..c[n] |->
                             MethodDescriptor(m, flat[SumTo(c, n - 1) + m])])]

\* class Method
Method_name(method) == RsSafeName(CamelToSnakeCase(method.name))
Method_proto_field_name(method) == method.name
Method_is_client_streaming(method) == method.client_streaming
Method_is_server_streaming(method) == method.server_streaming
Method_comment(method) == method.comment
Method_is_deprecated(method) == method.deprecated
Method_request_response_name(method) ==
  <<RsTypePath(method.input_type), RsTypePath(method.output_type)>>

\* class Service
Service_name(service) == RsSafeName(SnakeToUpperCamelCase(service.name))
Service_full_name(service) == service.full_name
Service_comment(service) == service.comment

\* a methods() that returns the methods last to first
Service_methods_reversed(service) ==
  [k \in 1..Len(service.methods) |->
     service.methods[Len(service.methods) + 1 - k]]

Service_methods(service) ==
  [k \in 1..Len(service.methods) |-> service.methods[k]]

\* a path built from the Rust identifier of the method
FormatMethodPathIdent(service, method) ==
  <<"/">> \o Service_full_name(service) \o <<"/">> \o Method_name(method)

FormatMethodPath(service, method) ==
  <<"/">> \o Service_full_name(service) \o <<"/">>
          \o Method_proto_field_name(method)

\* ------------------------------------------------------------------ printer
\* A format is the sequence of the pieces its line breaks separate; a piece is
\* its leading spaces (indent) and the tokens after them: literal text, a
\* $variable$, or (once substituted) a value.
Piece(indent, toks) == [indent |-> indent, toks |-> toks]
Lit(text) == [k |-> "lit", s |-> text, v |-> <<>>]
Var(name) == [k |-> "var", s |-> name, v |-> <<>>]
Val(value) == [k |-> "val", s |-> "", v |-> value]
EmptyPiece == Piece(0, <<>>)

\* rust_generator.cc lines 187-201
unary_format ==
  <<
     Piece(0, <<>>),
     Piece(4, <<Lit("pub async fn "),
              Var("ident"),
              Lit("(")>>),
     Piece(8, <<Lit("&mut self,")>>),
     Piece(8, <<Lit("request: impl tonic::IntoRequest<"),
              Var("request"),
              Lit(">,")>>),
     Piece(4, <<Lit(") -> std::result::Result<tonic::Response<tonic::codec::Streaming<"),
              Var("response"),
              Lit(">>, tonic::Status> {")>>),
     Piece(8, <<Lit("self.inner.ready().await.map_err(|e| {")>>),
     Piece(12, <<Lit("tonic::Status::unknown(format!(\"Service was not ready: {}\", e.into()))")>>),
     Piece(8, <<Lit("})?;")>>),
     Piece(8, <<Lit("let codec = "),
              Var("codec_name"),
              Lit("::default();")>>),
     Piece(8, <<Lit("let path = http::uri::PathAndQuery::from_static(\""),
              Var("path"),
              Lit("\");")>>),
     Piece(8, <<Lit("let mut req = request.into_request();")>>),
     Piece(8, <<Lit("req.extensions_mut().insert(GrpcMethod::new(\""),
              Var("service_name"),
              Lit("\", \""),
              Var("method_name"),
              Lit("\"));")>>),
     Piece(8, <<Lit("self.inner.server_streaming(req, path, codec).await")>>),
     Piece(4, <<Lit("}")>>),
     Piece(4, <<>>)
  >>

\* rust_generator.cc lines 203-217
server_streaming_format ==
  <<
     Piece(0, <<>>),
     Piece(8, <<Lit("pub async fn "),
              Var("ident"),
              Lit("(")>>),
     Piece(12, <<Lit("&mut self,")>>),
     Piece(12, <<Lit("request: impl tonic::IntoRequest<"),
              Var("request"),
              Lit(">,")>>),
     Piece(8, <<Lit(") -> std::result::Result<tonic::Response<tonic::codec::Streaming<"),
              Var("response"),
              Lit(">>, tonic::Status> {")>>),
     Piece(12, <<Lit("self.inner.ready().await.map_err(|e| {")>>),
     Piece(16, <<Lit("tonic::Status::unknown(format!(\"Service was not ready: {}\", e.into()))")>>),
     Piece(12, <<Lit("})?;")>>),
     Piece(12, <<Lit("let codec = "),
              Var("codec_name"),
              Lit("::default();")>>),
     Piece(12, <<Lit("let path = http::uri::PathAndQuery::from_static(\""),
              Var("path"),
              Lit("\");")>>),
     Piece(12, <<Lit("let mut req = request.into_request();")>>),
     Piece(12, <<Lit("req.extensions_mut().insert(GrpcMethod::new(\""),
              Var("service_name"),
              Lit("\", \""),
              Var("method_name"),
              Lit("\"));")>>),
     Piece(12, <<Lit("self.inner.server_streaming(req, path, codec).await")>>),
     Piece(8, <<Lit("}")>>),
     Piece(6, <<>>)
  >>

\* rust_generator.cc lines 219-233
client_streaming_format ==
  <<
     Piece(0, <<>>),
     Piece(8, <<Lit("pub async fn "),
              Var("ident"),
              Lit("(")>>),
     Piece(12, <<Lit("&mut self,")>>),
     Piece(12, <<Lit("request: impl tonic::IntoStreamingRequest<Message = "),
              Var("request"),
              Lit(">")>>),
     Piece(8, <<Lit(") -> std::result::Result<tonic::Response<"),
              Var("response"),
              Lit(">, tonic::Status> {")>>),
     Piece(12, <<Lit("self.inner.ready().await.map_err(|e| {")>>),
     Piece(16, <<Lit("tonic::Status::unknown(format!(\"Service was not ready: {}\", e.into()))")>>),
     Piece(12, <<Lit("})?;")>>),
     Piece(12, <<Lit("let codec = "),
              Var("codec_name"),
              Lit("::default();")>>),
     Piece(12, <<Lit("let path = http::uri::PathAndQuery::from_static(\""),
              Var("path"),
              Lit("\");")>>),
     Piece(12, <<Lit("let mut req = request.into_streaming_request();")>>),
     Piece(12, <<Lit("req.extensions_mut().insert(GrpcMethod::new(\""),
              Var("service_name"),
              Lit("\", \""),
              Var("method_name"),
              Lit("\"));")>>),
     Piece(12, <<Lit("self.inner.client_streaming(req, path, codec).await")>>),
     Piece(8, <<Lit("}")>>),
     Piece(6, <<>>)
  >>

\* rust_generator.cc lines 235-249
streaming_format ==
  <<
     Piece(0, <<>>),
     Piece(8, <<Lit("pub async fn "),
              Var("ident"),
              Lit("(")>>),
     Piece(12, <<Lit("&mut self,")>>),
     Piece(12, <<Lit("request: impl tonic::IntoStreamingRequest<Message = "),
              Var("request"),
              Lit(">")>>),
     Piece(8, <<Lit(") -> std::result::Result<tonic::Response<tonic::codec::Streaming<"),
              Var("response"),
              Lit(">>, tonic::Status> {")>>),
     Piece(12, <<Lit("self.inner.ready().await.map_err(|e| {")>>),
     Piece(16, <<Lit("tonic::Status::unknown(format!(\"Service was not ready: {}\", e.into()))")>>),
     Piece(12, <<Lit("})?;")>>),
     Piece(12, <<Lit("let codec = "),
              Var("codec_name"),
              Lit("::default();")>>),
     Piece(12, <<Lit("let path = http::uri::PathAndQuery::from_static(\""),
              Var("path"),
              Lit("\");")>>),
     Piece(12, <<Lit("let mut req = request.into_streaming_request();")>>),
     Piece(12, <<Lit("req.extensions_mut().insert(GrpcMethod::new(\""),
              Var("service_name"),
              Lit("\", \""),
              Var("method_name"),
              Lit("\"));")>>),
     Piece(12, <<Lit("self.inner.streaming(req, path, codec).await")>>),
     Piece(8, <<Lit("}")>>),
     Piece(6, <<>>)
  >>

\* the format "\n" of the separator between two methods
newline_format == <<EmptyPiece, EmptyPiece>>

RECURSIVE RawIndentFrom(_, _)
\* Printer::RawStringIndentLen after the line break that precedes piece p:
\* the leading spaces of the first line that is not empty
RawIndentFrom(format, p) ==
  IF format[p].toks = <<>> /\ p < Len(format)
  THEN RawIndentFrom(format, p + 1)
  ELSE format[p].indent

StartsWithNewline(format) == Len(format) >= 2 /\ format[1] = EmptyPiece

\* Printer::RawStringIndentLen: 0 unless the format starts with a line break
RawStringIndentLen(format) ==
  IF StartsWithNewline(format) THEN RawIndentFrom(format, 2) ELSE 0

\* the substitution of the variables of one piece
Substitute(toks, printer_vars) ==
  [n \in 1..Len(toks) |->
     IF toks[n].k = "var" THEN Val(printer_vars[toks[n].s]) ELSE toks[n]]

\* Context::Emit(format) = Printer::Emit with strip_raw_string_indentation:
\* one leading line break is dropped, the raw-string indentation is taken off
\* every line, the variables are substituted, and a line of spaces alone
\* (the one before the closing delimiter too) writes no character.  The
\* result is the text written, as the pieces its line breaks separate,
\* relative to the printer's current indentation.
Emit(format, printer_vars) ==
  LET raw_string_indent_len == RawStringIndentLen(format)
      body == IF StartsWithNewline(format) THEN Tail(format) ELSE format
  IN  [p \in 1..Len(body) |->
         IF body[p].toks = <<>> THEN EmptyPiece
         ELSE Piece(IF p = 1 THEN 0
                    ELSE Max(0, body[p].indent - raw_string_indent_len),
                    Substitute(body[p].toks, printer_vars))]

\* ------------------------------------------------------------------ emission
\* One entry of the output per Emit call: the text written (doc for a
\* documentation text, text for a format), with the service and the method
\* (its schema name) the call was made for.
Chunk(kind, svc, method, doc, text) ==
  [kind |-> kind, svc |-> svc, method |-> method, doc |-> doc, text |-> text]

T_codec == <<"g", "r", "p", "c", ":", ":", "c", "o", "d", "e", "c", ":", ":",
             "P", "r", "o", "t", "o", "C", "o", "d", "e", "c">>
T_Client == <<"C", "l", "i", "e", "n", "t">>
T_client_suffix == <<"_", "c", "l", "i", "e", "n", "t">>

\* the variables GenerateMethods binds for one method (WithVars)
MethodVars(service, method) ==
  [codec_name   |-> T_codec,
   ident        |-> Method_name(method),
   request      |-> Method_request_response_name(method)[1],
   response     |-> Method_request_response_name(method)[2],
   service_name |-> Service_full_name(service),
   path         |-> FormatMethodPath(service, method),
   method_name  |-> Method_proto_field_name(method)]

\* the format the if/else chain of GenerateMethods selects
SelectFormat(client_streaming, server_streaming) ==
  IF ~client_streaming /\ ~server_streaming THEN unary_format
  ELSE IF ~client_streaming /\ server_streaming THEN server_streaming_format
  ELSE IF client_streaming /\ ~server_streaming THEN client_streaming_format
  ELSE streaming_format

\* a selection that keeps the format of an earlier Generate call in a static
SkeletonFormatCached(method) ==
  IF pass = "second" THEN unary_format
  ELSE SelectFormat(Method_is_client_streaming(method),
                    Method_is_server_streaming(method))

SkeletonFormat(method) ==
  SelectFormat(Method_is_client_streaming(method),
               Method_is_server_streaming(method))

\* GenerateDeprecated
GenerateDeprecated(svc, method) ==
  Chunk("deprecated", svc, method.name, <<>>,
        Emit(<<Piece(0, <<Lit("#[deprecated]")>>), EmptyPiece>>, <<>>))

\* an iteration that writes the deprecation marker below the operation
MethodIterationMarkerLast(service, svc, methods, k) ==
  LET method == methods[k]
  IN  <<Chunk("doc", svc, method.name,
              ProtoCommentToRustDoc(Method_comment(method)), <<>>)>>
      \o <<Chunk("skeleton", svc, method.name, <<>>,
                 Emit(SkeletonFormat(method), MethodVars(service, method)))>>
      \o (IF Method_is_deprecated(method)
          THEN <<GenerateDeprecated(svc, method)>> ELSE <<>>)
      \o (IF k # Len(methods)
          THEN <<Chunk("separator", svc, method.name, <<>>,
                       Emit(newline_format, <<>>))>>
          ELSE <<>>)

\* one iteration of the loop of GenerateMethods, for methods[k]: the Emit
\* calls it makes, in order
MethodIteration(service, svc, methods, k) ==
  LET method == methods[k]
  IN  <<Chunk("doc", svc, method.name,
              ProtoCommentToRustDoc(Method_comment(method)), <<>>)>>
      \o (IF Method_is_deprecated(method)
          THEN <<GenerateDeprecated(svc, method)>> ELSE <<>>)
      \o <<Chunk("skeleton", svc, method.name, <<>>,
                 Emit(SkeletonFormat(method), MethodVars(service, method)))>>
      \o (IF k # Len(methods)
          THEN <<Chunk("separator", svc, method.name, <<>>,
                       Emit(newline_format, <<>>))>>
          ELSE <<>>)

\* the variables generate_client binds for one service
ClientVars(service) ==
  [client_mod    |-> CamelToSnakeCase(Service_name(service)) \o T_client_suffix,
   service_ident |-> Service_name(service) \o T_Client]

\* The format of generate_client up to $methods$, cut at $service_doc$.  Of
\* its fixed lines only those that hold a variable are kept.
client_head_format ==
  <<Piece(0, <<Lit("pub mod "), Var("client_mod"), Lit(" {")>>), EmptyPiece>>
client_struct_format ==
  <<Piece(0, <<Lit("pub struct "), Var("service_ident"), Lit("<T> {")>>),
    Piece(0, <<Lit("impl<T> "), Var("service_ident"), Lit("<T>")>>),
    EmptyPiece>>
client_tail_format == <<Piece(0, <<Lit("}")>>), Piece(0, <<Lit("}")>>)>>

\* generate_client up to the $methods$ callback
ClientBegin(service, svc) ==
  << Chunk("client_head", svc, <<>>, <<>>,
           Emit(client_head_format, ClientVars(service))),
     Chunk("service_doc", svc, <<>>,
           ProtoCommentToRustDoc(Service_comment(service)), <<>>),
     Chunk("client_struct", svc, <<>>, <<>>,
           Emit(client_struct_format, ClientVars(service))) >>

\* generate_client after the $methods$ callback
ClientEnd(service, svc) ==
  << Chunk("client_tail", svc, <<>>, <<>>,
           Emit(client_tail_format, ClientVars(service))) >>

\* ------------------------------------------------------------------ Generate
\* the plugin parameters, by what the protobuf library makes of them
Parameters == {"accepted", "bad_option", "bad_crate_mapping"}

\* rust::Options::Parse(parameter)
Options_Parse(param) ==
  [ok |-> param # "bad_option", message |-> "options: cannot parse parameter"]

\* rust::GetImportPathToCrateNameMap(&*opts)
GetImportPathToCrateNameMap(param) ==
  [ok |-> param # "bad_crate_mapping",
   message |-> "crate mapping: cannot read mapping file"]

NoPrev == [out |-> <<>>, ret |-> "none", error |-> "", opened |-> 0, calls |-> 0]

\* an entry that goes on to parse the parameter whatever the file declares
GenerateEntryNoEarlyReturn ==
  /\ pc = "entry"
  /\ pc' = "parse"
  /\ UNCHANGED <<file, parameter, i, j, out, opened, calls, error, ret, pass,
                 prev, arg, res, applied>>

\* Generate, lines 35-38: return early when the file declares no service
GenerateEntry ==
  /\ pc = "entry"
  /\ IF Len(file) = 0
     THEN pc' = "done" /\ ret' = "true"
     ELSE pc' = "parse" /\ ret' = ret
  /\ UNCHANGED <<file, parameter, i, j, out, opened, calls, error, pass, prev,
                 arg, res, applied>>

\* Generate, lines 39-47
ParseOptions ==
  /\ pc = "parse"
  /\ LET opts == Options_Parse(parameter)
     IN  IF ~opts.ok
         THEN pc' = "done" /\ ret' = "false" /\ error' = opts.message
         ELSE pc' = "crate_map" /\ ret' = ret /\ error' = error
  /\ UNCHANGED <<file, parameter, i, j, out, opened, calls, pass, prev,
                 arg, res, applied>>

\* a step that goes on without looking at the status of the crate map
BuildCrateMapUnchecked ==
  /\ pc = "crate_map"
  /\ pc' = "open"
  /\ UNCHANGED <<file, parameter, i, j, out, opened, calls, error, ret, pass,
                 prev, arg, res, applied>>

\* Generate, lines 49-57
BuildCrateMap ==
  /\ pc = "crate_map"
  /\ LET import_path_to_crate_name == GetImportPathToCrateNameMap(parameter)
     IN  IF ~import_path_to_crate_name.ok
         THEN /\ pc' = "done" /\ ret' = "false"
              /\ error' = import_path_to_crate_name.message
         ELSE pc' = "open" /\ ret' = ret /\ error' = error
  /\ UNCHANGED <<file, parameter, i, j, out, opened, calls, pass, prev,
                 arg, res, applied>>

\* Generate, lines 59-71: open the output file, enter the service loop
OpenOutput ==
  /\ pc = "open"
  /\ opened' = opened + 1
  /\ i' = 1
  /\ pc' = "services"
  /\ UNCHANGED <<file, parameter, j, out, calls, error, ret, pass, prev,
                 arg, res, applied>>

\* Generate, lines 71-73: GenerateService(ctx, file->service(i)), up to the
\* method loop of GenerateMethods
GenerateServiceBegin ==
  /\ pc = "services"
  /\ i <= Len(file)
  /\ calls' = calls + 1
  /\ out' = out \o ClientBegin(file[i], i)
  /\ j' = 1
  /\ pc' = "methods"
  /\ UNCHANGED <<file, parameter, i, opened, error, ret, pass, prev,
                 arg, res, applied>>

\* GenerateMethods, lines 252-284: one iteration of the method loop
GenerateMethods ==
  /\ pc = "methods"
  /\ LET methods == Service_methods(file[i])
     IN  /\ j <= Len(methods)
         /\ out' = out \o MethodIteration(file[i], i, methods, j)
  /\ j' = j + 1
  /\ UNCHANGED <<file, parameter, pc, i, opened, calls, error, ret, pass, prev,
                 arg, res, applied>>

\* the method loop is over: the rest of generate_client, the next service
GenerateServiceEnd ==
  /\ pc = "methods"
  /\ j > Len(Service_methods(file[i]))
  /\ out' = out \o ClientEnd(file[i], i)
  /\ i' = i + 1
  /\ pc' = "services"
  /\ UNCHANGED <<file, parameter, j, opened, calls, error, ret, pass, prev,
                 arg, res, applied>>

\* Generate, line 75
GenerateReturn ==
  /\ pc = "services"
  /\ i > Len(file)
  /\ ret' = "true"
  /\ pc' = "done"
  /\ UNCHANGED <<file, parameter, i, j, out, opened, calls, error, pass, prev,
                 arg, res, applied>>

\* Generate is called again on the same descriptor graph and parameter, with
\* a fresh GeneratorContext and error string
GenerateAgain ==
  /\ pc = "done"
  /\ pass = "first"
  /\ prev' = [out |-> out, ret |-> ret, error |-> error, opened |-> opened,
              calls |-> calls]
  /\ pass' = "second"
  /\ pc' = "entry"
  /\ i' = 0 /\ j' = 0 /\ out' = <<>> /\ opened' = 0 /\ calls' = 0
  /\ error' = "" /\ ret' = "none"
  /\ UNCHANGED <<file, parameter, arg, res, applied>>

\* the files of the bounds: up to MaxServices services, MaxMethods methods
InitFile ==
  \E k \in 0..MaxServices :
    \E c \in MethodCounts(k) :
      \E flat \in [1..SumTo(c, k) -> MethodFlags] :
        file = FileDescriptor(k, c, flat)

TextIdle == arg = <<>> /\ res = <<>> /\ applied = "none"

Init ==
  /\ InitFile
  /\ parameter \in Parameters
  /\ pc = "entry"
  /\ i = 0 /\ j = 0 /\ out = <<>> /\ opened = 0 /\ calls = 0
  /\ error = "" /\ ret = "none"
  /\ pass = "first"
  /\ prev = NoPrev
  /\ TextIdle

Next ==
  \/ GenerateEntry
  \/ ParseOptions
  \/ BuildCrateMap
  \/ OpenOutput
  \/ GenerateServiceBegin
  \/ GenerateMethods
  \/ GenerateServiceEnd
  \/ GenerateReturn
  \/ GenerateAgain

Spec == Init /\ [][Next]_vars

\* ------------------------------------------------------------------ the text functions on their own
GenIdle ==
  /\ file = <<>> /\ parameter = "accepted" /\ pc = "entry"
  /\ i = 0 /\ j = 0 /\ out = <<>> /\ opened = 0 /\ calls = 0
  /\ error = "" /\ ret = "none" /\ pass = "first" /\ prev = NoPrev

\* the characters of a comment line: the escape character, the eight markup
\* characters and a plain one
LineAlphabet == {BS, "a"} \cup MarkupChars
\* the characters of a raw comment
CommentAlphabet == {"A", "B", NL, "*", BS}

TextsUpTo(alphabet, n) == UNION {[1..len -> alphabet] : len \in 0..n}

InitSanitize ==
  /\ GenIdle
  /\ arg \in TextsUpTo(LineAlphabet, MaxLineLen)
  /\ res = <<>> /\ applied = "none"

\* SanitizeForRustDoc(arg)
ApplySanitize ==
  /\ applied = "none"
  /\ res' = SanitizeForRustDoc(arg)
  /\ applied' = "SanitizeForRustDoc"
  /\ UNCHANGED <<arg, file, parameter, pc, i, j, out, opened, calls, error,
                 ret, pass, prev>>

SpecSanitize == InitSanitize /\ [][ApplySanitize]_vars

InitDoc ==
  /\ GenIdle
  /\ arg \in TextsUpTo(CommentAlphabet, MaxCommentLen)
  /\ res = <<>> /\ applied = "none"

\* ProtoCommentToRustDoc(arg)
ApplyDoc ==
  /\ applied = "none"
  /\ res' = ProtoCommentToRustDoc(arg)
  /\ applied' = "ProtoCommentToRustDoc"
  /\ UNCHANGED <<arg, file, parameter, pc, i, j, out, opened, calls, error,
                 ret, pass, prev>>

SpecDoc == InitDoc /\ [][ApplyDoc]_vars

\* ------------------------------------------------------------------ claims
\* the positions of the output that hold an operation skeleton
SkeletonAt == {p \in 1..Len(out) : out[p].kind = "skeleton"}

\* the method descriptor a chunk of the output was written for
MethodOf(chunk) ==
  LET methods == file[chunk.svc].methods
  IN  methods[CHOOSE k \in 1..Len(methods) : methods[k].name = chunk.method]

Shapes == BOOLEAN \X BOOLEAN

\* C1: every operation skeleton in the output is the text of the format
\* bound to its method's (client_streaming, server_streaming) pair, and the
\* text any of the other three pairs would give for the same variables is a
\* different text.
C1_SkeletonsPairwiseDifferent ==
  \A p \in SkeletonAt :
    LET service == file[out[p].svc]
        method == MethodOf(out[p])
        own == <<method.client_streaming, method.server_streaming>>
    IN  /\ out[p].text = Emit(SelectFormat(own[1], own[2]),
                              MethodVars(service, method))
        /\ \A other \in Shapes \ {own} :
             out[p].text # Emit(SelectFormat(other[1], other[2]),
                                MethodVars(service, method))

\* the raw comment a documentation chunk was made from
CommentOf(chunk) ==
  IF chunk.kind = "service_doc" THEN file[chunk.svc].comment
  ELSE MethodOf(chunk).comment

\* C2: a method or service whose raw comment is empty has an empty
\* documentation text emitted for it (zero documentation lines).
C2_EmptyCommentNoDoc ==
  \A p \in 1..Len(out) :
    (out[p].kind \in {"doc", "service_doc"} /\ CommentOf(out[p]) = <<>>)
      => out[p].doc = <<>>

\* lines of a text, by the positions of its line breaks
NewlineCount(s) == Cardinality({p \in 1..Len(s) : s[p] = NL})
NthNewline(s, n) ==
  CHOOSE p \in 1..Len(s) :
    s[p] = NL /\ Cardinality({q \in 1..p : s[q] = NL}) = n
LineOf(s, n) ==
  SubSeq(s,
         IF n = 1 THEN 1 ELSE NthNewline(s, n - 1) + 1,
         IF n = NewlineCount(s) + 1 THEN Len(s) ELSE NthNewline(s, n) - 1)

T_doc_example_in == <<"A", NL, NL, "B">>
T_doc_example_out ==
  <<"/", "/", "/", " ", "A", NL, "/", "/", "/", NL, "/", "/", "/", " ", "B", NL>>

\* C3: for a non-empty raw comment with lines L1..Ln, ProtoCommentToRustDoc
\* gives exactly n lines, each ended by a line break, the k-th being "///"
\* when Lk is empty and otherwise "/// " followed by the sanitized Lk; the
\* comment A, empty line, B gives the three lines "/// A", "///", "/// B".
C3_OneDocLinePerLine ==
  (applied = "ProtoCommentToRustDoc" /\ arg # <<>>) =>
    LET n == NewlineCount(arg) + 1
    IN  /\ NewlineCount(res) = n
        /\ res[Len(res)] = NL
        /\ \A k \in 1..n :
             LineOf(res, k) =
               IF LineOf(arg, k) = <<>> THEN <<"/", "/", "/">>
               ELSE <<"/", "/", "/", " ">> \o SanitizeForRustDoc(LineOf(arg, k))
        /\ (arg = T_doc_example_in => res = T_doc_example_out)

C3_Witness ==
  applied = "ProtoCommentToRustDoc" /\ arg = T_doc_example_in
    /\ res = T_doc_example_out

\* what the sanitizer is to make of one character of its input
EscapedChar(c) ==
  IF c = BS THEN <<BS, BS>>
  ELSE IF c \in {Backtick, "*", "_", "[", "]", "#", "<", ">"} THEN <<BS, c>>
  ELSE <<c>>

\* C4: the sanitized line is the input with each backslash replaced by two
\* backslashes and each of the eight markup characters by a backslash and
\* the character, everything else unchanged and in order; backslash-asterisk
\* becomes backslash, backslash, backslash, asterisk.
C4_EscapeThenMarkup ==
  applied = "SanitizeForRustDoc" =>
    /\ res = Concat([k \in 1..Len(arg) |-> EscapedChar(arg[k])])
    /\ (arg = <<BS, "*">> => res = <<BS, BS, BS, "*">>)

C4_Witness ==
  applied = "SanitizeForRustDoc" /\ arg = <<BS, "*">>
    /\ res = <<BS, BS, BS, "*">>

\* the value substituted for $path$ in the text of an operation skeleton
PathIn(text) ==
  LET q == CHOOSE q \in 1..Len(text) :
             /\ Len(text[q].toks) >= 2
             /\ text[q].toks[1] =
                  Lit("let path = http::uri::PathAndQuery::from_static(\"")
  IN  text[q].toks[2].v

T_path_example == <<"/", "p", "k", "g", ".", "F", "o", "o", "/", "B", "a", "r">>

\* C5: the path in every emitted operation is "/", the service's full name,
\* "/", the method's schema name; for pkg.Foo and Bar it is /pkg.Foo/Bar.
C5_PathFromSchemaNames ==
  \A p \in SkeletonAt :
    /\ PathIn(out[p].text) =
         <<"/">> \o file[out[p].svc].full_name \o <<"/">> \o MethodOf(out[p]).name
    /\ (file[out[p].svc].full_name = T_pkg \o T_Foo /\ out[p].method = T_Bar)
         => PathIn(out[p].text) = T_path_example

C5_Witness ==
  \E p \in SkeletonAt :
    /\ out[p].svc = 1 /\ out[p].method = T_Bar
    /\ PathIn(out[p].text) = T_path_example
    /\ Method_name(MethodOf(out[p])) # out[p].method

\* the parameter is one the configuration parsing rejects
ConfigFails ==
  ~Options_Parse(parameter).ok \/ ~GetImportPathToCrateNameMap(parameter).ok

NothingProduced == opened = 0 /\ calls = 0 /\ out = <<>>

\* C6 as stated: whatever the file, a parameter that fails to parse makes
\* Generate return false with the error message set and nothing produced.
C6_ConfigErrorAbortsEveryFile ==
  ConfigFails =>
    /\ NothingProduced
    /\ pc = "done" => (ret = "false" /\ error # "")

\* C6, amended: a parameter that fails to parse never produces output; for a
\* file with at least one service Generate returns false with the error
\* message set, and for a file with no service it returns true with no error
\* message (the parameter is not parsed).
C6_ConfigErrorAborts ==
  ConfigFails =>
    /\ NothingProduced
    /\ (pc = "done" /\ Len(file) >= 1) => (ret = "false" /\ error # "")
    /\ (pc = "done" /\ Len(file) = 0) => (ret = "true" /\ error = "")

C6_Witness ==
  /\ pc = "done" /\ Len(file) >= 1
  /\ parameter = "bad_crate_mapping"
  /\ ret = "false" /\ error # "" /\ NothingProduced

\* C7: a file with no service opens no output file, calls GenerateService
\* never and returns true; a Generate call opens the output file at most
\* once, and only for a file with at least one service.
C7_NoServicesNoOutput ==
  /\ opened <= 1
  /\ opened = 1 => Len(file) >= 1
  /\ Len(file) = 0 => NothingProduced
  /\ (Len(file) = 0 /\ pc = "done") => ret = "true"

C7_Witness == Len(file) = 0 /\ pc = "done" /\ ret = "true" /\ NothingProduced

T_deprecated == <<Piece(0, <<Lit("#[deprecated]")>>), EmptyPiece>>

SameMethod(a, b) == a.svc = b.svc /\ a.method = b.method

\* C8: the operation of a deprecated method has the deprecation marker right
\* before it and the method's documentation right before the marker; the
\* operation of a method that is not deprecated has its documentation right
\* before it and no marker anywhere in the output.
C8_DeprecatedMarkerPlacement ==
  \A p \in SkeletonAt :
    IF MethodOf(out[p]).deprecated
    THEN /\ p >= 3
         /\ out[p - 1].kind = "deprecated" /\ SameMethod(out[p - 1], out[p])
         /\ out[p - 1].text = T_deprecated
         /\ out[p - 2].kind = "doc" /\ SameMethod(out[p - 2], out[p])
    ELSE /\ p >= 2
         /\ out[p - 1].kind = "doc" /\ SameMethod(out[p - 1], out[p])
         /\ \A q \in 1..Len(out) :
              out[q].kind = "deprecated" => ~SameMethod(out[q], out[p])

C8_Witness ==
  \E p, q \in SkeletonAt :
    /\ out[p].svc = out[q].svc /\ p < q
    /\ MethodOf(out[p]).deprecated /\ ~MethodOf(out[q]).deprecated

\* the chunks of one kind, in output order
OfKind(kind) == SelectSeq(out, LAMBDA c : c.kind = kind)

\* the operations the schema declares, in declaration order
DeclaredOperations ==
  Concat([n \in 1..Len(file) |->
            [m \in 1..Len(file[n].methods) |-> <<n, file[n].methods[m].name>>]])

\* C9: when Generate has returned true for a file with services S1..Sk, the
\* output holds one client wrapper per service in declaration order, each
\* opened and closed once around its own operations, and the operations are
\* those of the schema in declaration order, each once.
C9_DeclarationOrder ==
  (pc = "done" /\ ret = "true" /\ Len(file) >= 1) =>
    /\ [n \in 1..Len(OfKind("client_head")) |-> OfKind("client_head")[n].svc]
         = [n \in 1..Len(file) |-> n]
    /\ [n \in 1..Len(OfKind("client_tail")) |-> OfKind("client_tail")[n].svc]
         = [n \in 1..Len(file) |-> n]
    /\ [n \in 1..Len(OfKind("skeleton")) |->
          <<OfKind("skeleton")[n].svc, OfKind("skeleton")[n].method>>]
         = DeclaredOperations
    /\ \A p \in 1..Len(out) - 1 :
         \/ out[p + 1].svc = out[p].svc /\ out[p].kind # "client_tail"
                                         /\ out[p + 1].kind # "client_head"
         \/ out[p + 1].svc = out[p].svc + 1 /\ out[p].kind = "client_tail"
                                             /\ out[p + 1].kind = "client_head"

C9_Witness ==
  /\ pc = "done" /\ ret = "true" /\ Len(file) = 2
  /\ Len(file[1].methods) = 1 /\ Len(file[2].methods) = 1
  /\ Len(OfKind("skeleton")) = 2

PositionOf(chunk) ==
  LET methods == file[chunk.svc].methods
  IN  CHOOSE k \in 1..Len(methods) : methods[k].name = chunk.method

\* the chunks the method loop of GenerateMethods writes
LoopKinds == {"doc", "deprecated", "skeleton", "separator"}

\* the positions of the output that hold the separator of service svc
SeparatorsOf(svc) ==
  {p \in 1..Len(out) : out[p].kind = "separator" /\ out[p].svc = svc}

\* the services whose method loop has ended
LoopEnded(svc) ==
  \E p \in 1..Len(out) : out[p].kind = "client_tail" /\ out[p].svc = svc

\* one line break, as the pieces it separates
T_line_break == <<EmptyPiece, EmptyPiece>>

\* the Emit calls of the separator: one right after the operation of every
\* method but the last of its service, n-1 per service, none for a service
\* without methods
SeparatorCalls ==
  /\ \A p \in SkeletonAt :
       IF PositionOf(out[p]) < Len(file[out[p].svc].methods)
       THEN /\ p < Len(out)
            /\ out[p + 1].kind = "separator" /\ SameMethod(out[p + 1], out[p])
       ELSE p = Len(out) \/ out[p + 1].kind # "separator"
  /\ \A svc \in 1..Len(file) :
       LoopEnded(svc) =>
         /\ Cardinality(SeparatorsOf(svc))
              = Max(0, Len(file[svc].methods) - 1)
         /\ Len(file[svc].methods) = 0 =>
              \A p \in 1..Len(out) :
                out[p].svc = svc => out[p].kind \notin LoopKinds

RECURSIVE Unescape(_)
\* the text read left to right with every escape removed: a backslash is
\* dropped and the character after it kept
Unescape(s) ==
  IF s = <<>> THEN <<>>
  ELSE IF Head(s) = BS
       THEN IF Len(s) = 1 THEN <<>>
            ELSE <<s[2]>> \o Unescape(Tail(Tail(s)))
       ELSE <<Head(s)>> \o Unescape(Tail(s))

SpecialChars == {BS, Backtick, "*", "_", "[", "]", "#", "<", ">"}

RECURSIVE WellEscaped(_)
\* read left to right, every backslash escapes the character after it and
\* no special character stands unescaped
WellEscaped(s) ==
  IF s = <<>> THEN TRUE
  ELSE IF Head(s) = BS
       THEN Len(s) >= 2 /\ WellEscaped(Tail(Tail(s)))
       ELSE Head(s) \notin SpecialChars /\ WellEscaped(Tail(s))

\* C12: removing the escapes from the sanitized line gives the input line
\* back, no other line (of up to two characters) sanitizes to the same text,
\* and in the sanitized text every backslash and markup character that is
\* not itself an escaping backslash is preceded by one.
C12_SanitizeLosesNothing ==
  applied = "SanitizeForRustDoc" =>
    /\ Unescape(res) = arg
    /\ WellEscaped(res)
    /\ \A other \in TextsUpTo(LineAlphabet, 2) :
         other # arg => SanitizeForRustDoc(other) # res

C12_Witness ==
  /\ applied = "SanitizeForRustDoc"
  /\ arg = <<BS, "*", "a">>
  /\ res = <<BS, BS, BS, "*", "a">>
  /\ Unescape(res) = arg

====
